---- MODULE Spec2Model ----
(***************************************************************************)
(* Model of the raster editor (src/src/editor.rs): blend, copy, crop,      *)
(* fill and the resize family over an in-memory RGBA image.                *)
(*                                                                         *)
(* An image is a record [width, height, pix] where pix maps <<x, y>> to a   *)
(* colour [r, g, b, a].  Floating point ratios of the resize family are    *)
(* computed as exact rationals of the integer operands (for the sizes the *)
(* model ranges over, the f32 and f64 results of the source equal them);   *)
(* opacity is the rational opacity / OpacityUnit.  The aspect ratio of the *)
(* ratio-preserving resizes is taken only of sources with a pixel, where   *)
(* it is a finite non-zero float.                                          *)
(***************************************************************************)
EXTENDS Integers, FiniteSets, Sequences, TLC

VARIABLES src, call, result

vars == <<src, call, result>>

(* ------------------------------ bounds -------------------------------- *)

\* widths and heights of the source (base) image range over 0..MaxDim
MaxDim == 3
\* widths and heights of the overlay image range over 0..MaxOverlay
MaxOverlay == 2
\* raw offsets range over -MaxOff..MaxOff
MaxOff == 1
\* requested crop sizes range over -1..MaxCrop
MaxCrop == 3
\* requested resize sizes range over 0..MaxTarget
MaxTarget == 4
\* opacity 1.0 is OpacityUnit / OpacityUnit
OpacityUnit == 2

(* --------------------------- integer helpers --------------------------- *)

Abs(n) == IF n < 0 THEN -n ELSE n

\* i32 division: truncates toward zero
TruncDiv(a, b) ==
    IF (a >= 0 /\ b > 0) \/ (a <= 0 /\ b < 0)
    THEN Abs(a) \div Abs(b)
    ELSE -(Abs(a) \div Abs(b))

\* (n as f / (d as f)).round() as i32 for n >= 0, d > 0: half away from zero
RoundDiv(n, d) == (2 * n + d) \div (2 * d)

\* (n as f / (d as f)) as i32 for n >= 0, d > 0: truncation
FloorDiv(n, d) == n \div d

(* ------------------------- pixel buffer (Image) ------------------------ *)

Coords(w, h) == (0 .. (w - 1)) \X (0 .. (h - 1))

rgba(r, g, b, a) == [r |-> r, g |-> g, b |-> b, a |-> a]

blank(w, h) ==
    [width |-> w, height |-> h, pix |-> [p \in Coords(w, h) |-> rgba(0, 0, 0, 0)]]

in_bounds(img, x, y) ==
    /\ 0 <= x /\ x < img.width
    /\ 0 <= y /\ y < img.height

get_pixel(img, x, y) == img.pix[<<x, y>>]

\* the decoded base / source picture of a given size
SourcePicture(w, h) ==
    [width |-> w, height |-> h,
     pix |-> [p \in Coords(w, h) |->
                rgba(250 - 40 * p[1], 7 + 30 * p[2], 5 + p[1] + 3 * p[2], 255)]]

\* the decoded overlay picture of a given size
OverlayPicture(w, h) ==
    [width |-> w, height |-> h,
     pix |-> [p \in Coords(w, h) |->
                rgba(3 + 20 * p[1], 240 - 50 * p[2], 128 + 2 * p[1] + p[2], 255)]]

NoImage == [width |-> 0, height |-> 0, pix |-> << >>, none |-> TRUE]

(* ------------------------------ results -------------------------------- *)

ErrPosition == "Invalid position"
ErrOutside  == "Invalid blending. Image 2 is outside the canvas."
ErrBlend    == "Invalid blend type"
ErrPixel    == "out of bounds"
ErrResize   == "Invalid resize mode"
ErrInterp   == "Invalid interpolation"

NoLocals == [none |-> TRUE]

Ok(img, locs)  == [status |-> "ok", error |-> "", image |-> img, locals |-> locs]
Err(msg, locs) == [status |-> "err", error |-> msg, image |-> NoImage, locals |-> locs]

(* ---------------------------- Position --------------------------------- *)

Positions ==
    {"top-left", "top-center", "top-right",
     "center-left", "center", "center-right",
     "bottom-left", "bottom-center", "bottom-right"}

\* Position::get_x_y: top-left corner of an image_width x image_height box
\* anchored in a canvas_width x canvas_height canvas, plus the raw offsets
get_x_y(position, offset_x, offset_y, canvas_width, canvas_height, image_width, image_height) ==
    LET left   == offset_x
        center == (TruncDiv(canvas_width, 2) - TruncDiv(image_width, 2)) + offset_x
        right  == (canvas_width - image_width) + offset_x
        top    == offset_y
        middle == (TruncDiv(canvas_height, 2) - TruncDiv(image_height, 2)) + offset_y
        bottom == (canvas_height - image_height) + offset_y
        at(x, y) == [ok |-> TRUE, x |-> x, y |-> y]
    IN  CASE position = "top-left"      -> at(left, top)
          [] position = "top-center"    -> at(center, top)
          [] position = "top-right"     -> at(right, top)
          [] position = "center-left"   -> at(left, middle)
          [] position = "center"        -> at(center, middle)
          [] position = "center-right"  -> at(right, middle)
          [] position = "bottom-left"   -> at(left, bottom)
          [] position = "bottom-center" -> at(center, bottom)
          [] position = "bottom-right"  -> at(right, bottom)
          [] OTHER                      -> [ok |-> FALSE, x |-> 0, y |-> 0]

(* ------------------------------ blend ---------------------------------- *)

BlendModes == {"normal", "difference", "multiply", "overlay", "screen"}

\* str::to_lowercase on the mode keywords
to_lowercase(s) ==
    CASE s = "NORMAL"   -> "normal"
      [] s = "Multiply" -> "multiply"
      [] OTHER          -> s

\* lines 52-57: clamp opacity to [0.0, 1.0]
clamp_opacity(opacity) ==
    IF opacity > OpacityUnit THEN OpacityUnit
    ELSE IF opacity < 0 THEN 0
    ELSE opacity

\* per-channel blend functions of the blend module on 0..255 samples
blend_channel(mode, b, o) ==
    CASE mode = "normal"     -> o
      [] mode = "difference" -> Abs(b - o)
      [] mode = "multiply"   -> (b * o) \div 255
      [] mode = "screen"     -> 255 - ((255 - b) * (255 - o)) \div 255
      [] mode = "overlay"    ->
            IF 2 * b <= 255
            THEN (2 * b * o) \div 255
            ELSE 255 - (2 * (255 - b) * (255 - o)) \div 255

\* opacity mix: base * (1 - opacity) + blended * opacity
mix_channel(b, blended, opacity) ==
    (b * (OpacityUnit - opacity) + blended * opacity) \div OpacityUnit

blend_pixel(mode, c1, c2, opacity) ==
    rgba(mix_channel(c1.r, blend_channel(mode, c1.r, c2.r), opacity),
         mix_channel(c1.g, blend_channel(mode, c1.g, c2.g), opacity),
         mix_channel(c1.b, blend_channel(mode, c1.b, c2.b), opacity),
         c1.a)

\* blend::normal, blend::difference, ...: a copy of image1 with the pixels of
\* the clipped overlay region blended in; a pixel access outside either
\* image fails
blend_apply(mode, image1, image2, loop_start_y, loop_end_y, loop_start_x, loop_end_x, offset_x, offset_y, opacity, locs) ==
    LET region == (loop_start_x .. (loop_end_x - 1)) \X (loop_start_y .. (loop_end_y - 1))
        valid  == \A q \in region :
                     /\ in_bounds(image2, q[1], q[2])
                     /\ in_bounds(image1, offset_x + q[1], offset_y + q[2])
        canvas == [p \in DOMAIN image1.pix |->
                     IF <<p[1] - offset_x, p[2] - offset_y>> \in region
                     THEN blend_pixel(mode, image1.pix[p],
                                      get_pixel(image2, p[1] - offset_x, p[2] - offset_y),
                                      opacity)
                     ELSE image1.pix[p]]
    IN  IF valid
        THEN Ok([width |-> image1.width, height |-> image1.height, pix |-> canvas], locs)
        ELSE Err(ErrPixel, locs)

\* the overlap check with strict comparisons on the far edges
outside_canvas_strict(offset_x, offset_y, w1, h1, w2, h2) ==
    \/ offset_x > w1
    \/ offset_x + w2 <= 0
    \/ offset_y > h1
    \/ offset_y + h2 <= 0

\* lines 69-72: the overlay lies entirely outside the canvas
outside_canvas(offset_x, offset_y, w1, h1, w2, h2) ==
    \/ offset_x >= w1
    \/ offset_x + w2 <= 0
    \/ offset_y >= h1
    \/ offset_y + h2 <= 0

\* loop start with the sign test inverted
loop_start_inverted(canvas_start) ==
    IF canvas_start > 0 THEN 0 + canvas_start ELSE 0

\* lines 78-83 and 94-99: first overlay column / row inside the canvas
loop_start(canvas_start) ==
    IF canvas_start < 0 THEN 0 + (0 - canvas_start) ELSE 0

\* loop end left at the overlay's size
loop_end_unclipped(size2, offset, size1) == size2

\* lines 86-91 and 102-107: one past the last overlay column / row inside
loop_end(size2, offset, size1) ==
    LET canvas_end == offset + size2
    IN  IF canvas_end > size1 THEN size2 - (canvas_end - size1) ELSE size2

\* blend with the mode keyword validated before the placement
blend_mode_first(image1, image2, blend_mode, opacity, position, offset_x, offset_y) ==
    LET op  == clamp_opacity(opacity)
        pos == get_x_y(position, offset_x, offset_y,
                       image1.width, image1.height, image2.width, image2.height)
        w1 == image1.width
        h1 == image1.height
        w2 == image2.width
        h2 == image2.height
        placed == [resolved |-> TRUE, offset_x |-> pos.x, offset_y |-> pos.y,
                   clipped |-> FALSE]
        loop_start_x == loop_start(pos.x)
        loop_end_x   == loop_end(w2, pos.x, w1)
        loop_start_y == loop_start(pos.y)
        loop_end_y   == loop_end(h2, pos.y, h1)
        locs == [resolved |-> TRUE, offset_x |-> pos.x, offset_y |-> pos.y,
                 clipped |-> TRUE,
                 loop_start_x |-> loop_start_x, loop_end_x |-> loop_end_x,
                 loop_start_y |-> loop_start_y, loop_end_y |-> loop_end_y]
        mode == to_lowercase(blend_mode)
    IN  IF ~pos.ok
        THEN Err(ErrPosition, [resolved |-> FALSE])
        ELSE IF mode \notin BlendModes
        THEN Err(ErrBlend, placed)
        ELSE IF outside_canvas(pos.x, pos.y, w1, h1, w2, h2)
        THEN Err(ErrOutside, placed)
        ELSE blend_apply(mode, image1, image2, loop_start_y, loop_end_y,
                         loop_start_x, loop_end_x, pos.x, pos.y, op, locs)

blend(image1, image2, blend_mode, opacity, position, offset_x, offset_y) ==
    LET op  == clamp_opacity(opacity)
        pos == get_x_y(position, offset_x, offset_y,
                       image1.width, image1.height, image2.width, image2.height)
        w1 == image1.width
        h1 == image1.height
        w2 == image2.width
        h2 == image2.height
        placed == [resolved |-> TRUE, offset_x |-> pos.x, offset_y |-> pos.y,
                   clipped |-> FALSE]
        loop_start_x == loop_start(pos.x)
        loop_end_x   == loop_end(w2, pos.x, w1)
        loop_start_y == loop_start(pos.y)
        loop_end_y   == loop_end(h2, pos.y, h1)
        locs == [resolved |-> TRUE, offset_x |-> pos.x, offset_y |-> pos.y,
                 clipped |-> TRUE,
                 loop_start_x |-> loop_start_x, loop_end_x |-> loop_end_x,
                 loop_start_y |-> loop_start_y, loop_end_y |-> loop_end_y]
        mode == to_lowercase(blend_mode)
    IN  IF ~pos.ok
        THEN Err(ErrPosition, [resolved |-> FALSE])
        ELSE IF outside_canvas(pos.x, pos.y, w1, h1, w2, h2)
        THEN Err(ErrOutside, placed)
        ELSE IF mode \in BlendModes
        THEN blend_apply(mode, image1, image2, loop_start_y, loop_end_y,
                         loop_start_x, loop_end_x, pos.x, pos.y, op, locs)
        ELSE Err(ErrBlend, locs)

(* --------------------------- copy, crop, fill -------------------------- *)

copy(image) == [width |-> image.width, height |-> image.height, pix |-> image.pix]

\* resolved offset used as it comes
clamp_offset_none(offset) == offset

\* lines 184-185: a negative resolved offset becomes 0
clamp_offset(offset) == IF offset < 0 THEN 0 ELSE offset

\* end coordinate never clamped
clamp_end_none(offset, size, limit) == offset + size

\* lines 188-196: end coordinate offset + size, at most the source's size
clamp_end(offset, size, limit) ==
    IF offset + size > limit THEN limit ELSE offset + size

\* crop with the end coordinates always at the source's far edges
crop_to_edge(image, crop_width, crop_height, position, offset_x, offset_y) ==
    LET pos == get_x_y(position, offset_x, offset_y,
                       image.width, image.height, crop_width, crop_height)
        ox == clamp_offset(pos.x)
        oy == clamp_offset(pos.y)
        height2 == image.height
        width2  == image.width
        dest  == blank(width2 - ox, height2 - oy)
        reads == {<<ox + p[1], oy + p[2]>> : p \in DOMAIN dest.pix}
        locs  == [resolved |-> TRUE, offset_x |-> ox, offset_y |-> oy, reads |-> reads]
    IN  IF ~pos.ok
        THEN Err(ErrPosition, [resolved |-> FALSE])
        ELSE IF \A q \in reads : in_bounds(image, q[1], q[2])
        THEN Ok([dest EXCEPT !.pix = [p \in DOMAIN dest.pix |->
                                        get_pixel(image, ox + p[1], oy + p[2])]], locs)
        ELSE Err(ErrPixel, locs)

crop(image, crop_width, crop_height, position, offset_x, offset_y) ==
    LET pos == get_x_y(position, offset_x, offset_y,
                       image.width, image.height, crop_width, crop_height)
        ox == clamp_offset(pos.x)
        oy == clamp_offset(pos.y)
        height2 == clamp_end(oy, crop_height, image.height)
        width2  == clamp_end(ox, crop_width, image.width)
        dest  == blank(width2 - ox, height2 - oy)
        reads == {<<ox + p[1], oy + p[2]>> : p \in DOMAIN dest.pix}
        locs  == [resolved |-> TRUE, offset_x |-> ox, offset_y |-> oy, reads |-> reads]
    IN  IF ~pos.ok
        THEN Err(ErrPosition, [resolved |-> FALSE])
        ELSE IF \A q \in reads : in_bounds(image, q[1], q[2])
        THEN Ok([dest EXCEPT !.pix = [p \in DOMAIN dest.pix |->
                                        get_pixel(image, ox + p[1], oy + p[2])]], locs)
        ELSE Err(ErrPixel, locs)

fill(image, color) ==
    LET dest == blank(image.width, image.height)
    IN  Ok([dest EXCEPT !.pix = [p \in DOMAIN dest.pix |-> color]], NoLocals)

(* ------------------------------ resample ------------------------------- *)

\* sample coordinate rounded to nearest instead of floored
nearest_rounded(image, w, h, p) ==
    <<RoundDiv(p[1] * image.width, w), RoundDiv(p[2] * image.height, h)>>

\* lines 428-429: floor(x * (src.width / w)), floor(y * (src.height / h))
nearest(image, w, h, p) ==
    <<FloorDiv(p[1] * image.width, w), FloorDiv(p[2] * image.height, h)>>

interpolate_nearest(image, w, h) ==
    LET dest    == blank(w, h)
        samples == {nearest(image, w, h, p) : p \in DOMAIN dest.pix}
        locs    == [resize_width |-> w, resize_height |-> h, samples |-> samples]
    IN  IF \A q \in samples : in_bounds(image, q[1], q[2])
        THEN Ok([dest EXCEPT !.pix = [p \in DOMAIN dest.pix |->
                                        LET q == nearest(image, w, h, p)
                                        IN  get_pixel(image, q[1], q[2])]], locs)
        ELSE Err(ErrPixel, locs)

resample(image, w, h, interpolation) ==
    CASE interpolation = "bilinear" -> interpolate_nearest(image, w, h)
      [] interpolation = "bicubic"  -> interpolate_nearest(image, w, h)
      [] interpolation = "nearest"  -> interpolate_nearest(image, w, h)
      [] OTHER -> Err(ErrInterp, NoLocals)

(* ------------------------------- resize -------------------------------- *)

resize_exact(image, w, h) == resample(image, w, h, "bicubic")

\* ratio = width / height; h * ratio truncated
resize_exact_height(image, h) ==
    resample(image, FloorDiv(h * image.width, image.height), h, "bicubic")

\* ratio = width / height; w / ratio rounded
resize_exact_width(image, w) ==
    resample(image, w, RoundDiv(w * image.height, image.width), "bicubic")

\* fill size always based on the width
fill_size_width_only(width, height, w, h) ==
    <<w, RoundDiv(w * height, width)>>

\* lines 362-369: the size the source is scaled to before the excess is cut
fill_size(width, height, w, h) ==
    LET optimum_width  == w
        optimum_height == RoundDiv(w * height, width)
    IN  IF (optimum_width < w) \/ (optimum_height < h)
        THEN <<FloorDiv(h * width, height), h>>
        ELSE <<optimum_width, optimum_height>>

resize_fill(image, w, h) ==
    LET optimum == fill_size(image.width, image.height, w, h)
        resized == resample(image, optimum[1], optimum[2], "bicubic")
        cut     == crop(resized.image, w, h, "top-left", 0, 0)
    IN  IF resized.status = "err"
        THEN resized
        ELSE [cut EXCEPT !.locals = [resize_width |-> optimum[1],
                                     resize_height |-> optimum[2],
                                     samples |-> resized.locals.samples,
                                     reads |-> cut.locals.reads]]

\* fit size with the ratio inverted in the height-based branch
fit_size_inverted(width, height, w, h) ==
    LET resize_width  == w
        resize_height == RoundDiv(w * height, width)
    IN  IF (resize_width > w) \/ (resize_height > h)
        THEN <<RoundDiv(h * height, width), h>>
        ELSE <<resize_width, resize_height>>

\* lines 397-404: the size the source is scaled to
fit_size(width, height, w, h) ==
    LET resize_width  == w
        resize_height == RoundDiv(w * height, width)
    IN  IF (resize_width > w) \/ (resize_height > h)
        THEN <<RoundDiv(h * width, height), h>>
        ELSE <<resize_width, resize_height>>

resize_fit(image, w, h) ==
    LET size == fit_size(image.width, image.height, w, h)
    IN  resample(image, size[1], size[2], "bicubic")

ResizeModes == {"exact", "exact_width", "exact_height", "fit", "fill"}

resize(image, w, h, mode) ==
    CASE mode = "exact"        -> resize_exact(image, w, h)
      [] mode = "exact_width"  -> resize_exact_width(image, w)
      [] mode = "exact_height" -> resize_exact_height(image, h)
      [] mode = "fit"          -> resize_fit(image, w, h)
      [] mode = "fill"         -> resize_fill(image, w, h)
      [] OTHER                 -> Err(ErrResize, NoLocals)

(* --------------------------- specification ----------------------------- *)

Dims == 0 .. MaxDim
Offsets == (-MaxOff) .. MaxOff
Anchors == Positions \cup {"middle"}
ModeInputs == BlendModes \cup {"NORMAL", "hue"}
Opacities == {-1, 1, OpacityUnit, OpacityUnit + 1}
\* every mode at full opacity, and "normal" at every opacity
BlendStyles ==
    {<<m, OpacityUnit>> : m \in ModeInputs} \cup {<<"normal", o>> : o \in Opacities}
OverlayDims == 0 .. MaxOverlay
CropSizes == (-1) .. MaxCrop
Targets == 0 .. MaxTarget
FillColors == {rgba(255, 0, 0, 255), rgba(0, 0, 255, 128)}

NoCall == [op |-> "none"]
NoResult == [status |-> "none"]

Init ==
    /\ \E w \in Dims, h \in Dims : src = SourcePicture(w, h)
    /\ call = NoCall
    /\ result = NoResult

Blend ==
    /\ call = NoCall
    /\ \E w2 \in OverlayDims, h2 \in OverlayDims, style \in BlendStyles,
          position \in Anchors, offset_x \in Offsets, offset_y \in Offsets :
          LET image2  == OverlayPicture(w2, h2)
              mode    == style[1]
              opacity == style[2]
          IN  /\ call' = [op |-> "blend", image2 |-> image2, blend_mode |-> mode,
                          opacity |-> opacity, position |-> position,
                          offset_x |-> offset_x, offset_y |-> offset_y]
              /\ result' = blend(src, image2, mode, opacity, position, offset_x, offset_y)
    /\ UNCHANGED src

Copy ==
    /\ call = NoCall
    /\ call' = [op |-> "copy"]
    /\ result' = Ok(copy(src), NoLocals)
    /\ UNCHANGED src

Crop ==
    /\ call = NoCall
    /\ \E crop_width \in CropSizes, crop_height \in CropSizes, position \in Anchors,
          offset_x \in Offsets, offset_y \in Offsets :
          /\ call' = [op |-> "crop", crop_width |-> crop_width,
                      crop_height |-> crop_height, position |-> position,
                      offset_x |-> offset_x, offset_y |-> offset_y]
          /\ result' = crop(src, crop_width, crop_height, position, offset_x, offset_y)
    /\ UNCHANGED src

Fill ==
    /\ call = NoCall
    /\ \E color \in FillColors :
          /\ call' = [op |-> "fill", color |-> color]
          /\ result' = fill(src, color)
    /\ UNCHANGED src

\* the aspect ratio width / height is a finite non-zero float
HasRatio == src.width > 0 /\ src.height > 0

Resize ==
    /\ call = NoCall
    /\ \E w \in Targets, h \in Targets,
          mode \in IF HasRatio THEN ResizeModes \cup {"stretch"} ELSE {"exact", "stretch"} :
          /\ call' = [op |-> "resize", w |-> w, h |-> h, mode |-> mode]
          /\ result' = resize(src, w, h, mode)
    /\ UNCHANGED src

ResizeExact ==
    /\ call = NoCall
    /\ \E w \in Targets, h \in Targets :
          /\ call' = [op |-> "resize_exact", w |-> w, h |-> h, mode |-> "exact"]
          /\ result' = resize_exact(src, w, h)
    /\ UNCHANGED src

ResizeExactHeight ==
    /\ call = NoCall
    /\ HasRatio
    /\ \E h \in Targets :
          /\ call' = [op |-> "resize_exact_height", w |-> 0, h |-> h,
                      mode |-> "exact_height"]
          /\ result' = resize_exact_height(src, h)
    /\ UNCHANGED src

ResizeExactWidth ==
    /\ call = NoCall
    /\ HasRatio
    /\ \E w \in Targets :
          /\ call' = [op |-> "resize_exact_width", w |-> w, h |-> 0,
                      mode |-> "exact_width"]
          /\ result' = resize_exact_width(src, w)
    /\ UNCHANGED src

ResizeFill ==
    /\ call = NoCall
    /\ HasRatio
    /\ \E w \in Targets, h \in Targets :
          /\ call' = [op |-> "resize_fill", w |-> w, h |-> h, mode |-> "fill"]
          /\ result' = resize_fill(src, w, h)
    /\ UNCHANGED src

ResizeFit ==
    /\ call = NoCall
    /\ HasRatio
    /\ \E w \in Targets, h \in Targets :
          /\ call' = [op |-> "resize_fit", w |-> w, h |-> h, mode |-> "fit"]
          /\ result' = resize_fit(src, w, h)
    /\ UNCHANGED src

Next ==
    \/ Blend
    \/ Copy
    \/ Crop
    \/ Fill
    \/ Resize
    \/ ResizeExact
    \/ ResizeExactHeight
    \/ ResizeExactWidth
    \/ ResizeFill
    \/ ResizeFit

Spec == Init /\ [][Next]_vars


(* ------------------------------ properties ----------------------------- *)

IsBlend == call.op = "blend"
IsCrop  == call.op = "crop"
IsExact == call.op = "resize_exact" \/ (call.op = "resize" /\ call.mode = "exact")
IsFit   == call.op = "resize_fit" \/ (call.op = "resize" /\ call.mode = "fit")
IsFill  == call.op = "resize_fill" \/ (call.op = "resize" /\ call.mode = "fill")

Failed(msg) == result.status = "err" /\ result.error = msg

\* pixels of the canvas covered by the overlay placed at (ox, oy)
Covered(canvas, overlay, ox, oy) ==
    {p \in Coords(canvas.width, canvas.height) :
        <<p[1] - ox, p[2] - oy>> \in Coords(overlay.width, overlay.height)}

\* the placement blend resolved has no pixel in common with the canvas
NoIntersection ==
    /\ IsBlend
    /\ result.locals.resolved
    /\ Covered(src, call.image2, result.locals.offset_x, result.locals.offset_y) = {}

NonEmpty(img) == img.width >= 1 /\ img.height >= 1

\* C1 as stated: blend fails with the outside-the-canvas error whenever the
\* translated overlay rectangle and the base rectangle do not intersect,
\* zero-sized base or overlay included.
C1_AnyEmptyIntersectionFails ==
    NoIntersection => Failed(ErrOutside)

\* C1 amended: for a base and an overlay of width and height >= 1, blend fails
\* with the outside-the-canvas error whenever the translated overlay rectangle
\* and the base rectangle do not intersect.
C1_EmptyIntersectionFails ==
    (NoIntersection /\ NonEmpty(src) /\ NonEmpty(call.image2)) => Failed(ErrOutside)

C1_Witness ==
    /\ NoIntersection /\ NonEmpty(src) /\ NonEmpty(call.image2)
    /\ result.locals.offset_x = src.width
    /\ Failed(ErrOutside)

\* C2: once blend passed its overlap check, every overlay-local (x, y) inside
\* the clipped loop bounds is a pixel of the overlay and (offset_x + x,
\* offset_y + y) is a pixel of the base.
C2_ClippedBoundsValid ==
    (IsBlend /\ result.locals.resolved /\ result.locals.clipped) =>
        LET l == result.locals
        IN  \A x \in l.loop_start_x .. (l.loop_end_x - 1),
               y \in l.loop_start_y .. (l.loop_end_y - 1) :
               /\ in_bounds(call.image2, x, y)
               /\ in_bounds(src, l.offset_x + x, l.offset_y + y)

C2_Witness ==
    /\ IsBlend /\ result.locals.resolved /\ result.locals.clipped
    /\ result.locals.loop_start_x > 0
    /\ result.locals.loop_end_y < call.image2.height
    /\ result.locals.loop_start_x < result.locals.loop_end_x
    /\ result.locals.loop_start_y < result.locals.loop_end_y

\* the overlay's translated rectangle lies inside the base rectangle
FullyInside ==
    /\ IsBlend
    /\ result.locals.resolved
    /\ 0 <= result.locals.offset_x
    /\ result.locals.offset_x + call.image2.width <= src.width
    /\ 0 <= result.locals.offset_y
    /\ result.locals.offset_y + call.image2.height <= src.height

SameRGB(c, d) == c.r = d.r /\ c.g = d.g /\ c.b = d.b

\* the result is the base with the overlay's RGB over the covered pixels
OverlayComposited ==
    LET ox == result.locals.offset_x
        oy == result.locals.offset_y
        covered == Covered(src, call.image2, ox, oy)
    IN  /\ result.status = "ok"
        /\ result.image.width = src.width
        /\ result.image.height = src.height
        /\ DOMAIN result.image.pix = Coords(src.width, src.height)
        /\ \A p \in Coords(src.width, src.height) :
              IF p \in covered
              THEN SameRGB(result.image.pix[p],
                           call.image2.pix[<<p[1] - ox, p[2] - oy>>])
              ELSE result.image.pix[p] = src.pix[p]

NormalFull == call.blend_mode = "normal" /\ call.opacity = OpacityUnit

\* C3 as stated: mode "normal", opacity 1.0 and an overlay rectangle fully
\* inside the base give the base with the overlay's RGB over the rectangle.
C3_NormalFullInside ==
    (FullyInside /\ NormalFull) => OverlayComposited

\* C3 amended: the same for an overlay of width and height >= 1.
C3_NormalFullInsideNonEmpty ==
    (FullyInside /\ NormalFull /\ NonEmpty(call.image2)) => OverlayComposited

C3_Witness ==
    /\ FullyInside /\ NormalFull /\ NonEmpty(call.image2)
    /\ call.position = "center"
    /\ result.locals.offset_x > 0
    /\ result.locals.offset_x + call.image2.width < src.width
    /\ OverlayComposited

\* C4: a successful crop returns an image no wider than crop_width and
\* src.width and no higher than crop_height and src.height.
C4_CropWithinRequestAndSource ==
    (IsCrop /\ result.status = "ok") =>
        /\ result.image.width <= call.crop_width
        /\ result.image.width <= src.width
        /\ result.image.height <= call.crop_height
        /\ result.image.height <= src.height

C4_Witness ==
    /\ IsCrop /\ result.status = "ok"
    /\ call.position = "top-left" /\ call.offset_x < 0
    /\ call.crop_width > src.width
    /\ result.image.width = src.width
    /\ 0 < result.image.height /\ result.image.height < call.crop_height

\* C5: crop(src, w, h, "top-left", 0, 0) with 0 <= w <= src.width and
\* 0 <= h <= src.height is exactly w x h and equals src on every pixel.
C5_TopLeftCropIdentical ==
    (/\ IsCrop
     /\ call.position = "top-left" /\ call.offset_x = 0 /\ call.offset_y = 0
     /\ 0 <= call.crop_width /\ call.crop_width <= src.width
     /\ 0 <= call.crop_height /\ call.crop_height <= src.height) =>
        /\ result.status = "ok"
        /\ result.image.width = call.crop_width
        /\ result.image.height = call.crop_height
        /\ DOMAIN result.image.pix = Coords(call.crop_width, call.crop_height)
        /\ \A p \in Coords(call.crop_width, call.crop_height) :
              result.image.pix[p] = src.pix[p]

C5_Witness ==
    /\ IsCrop /\ result.status = "ok"
    /\ call.position = "top-left" /\ call.offset_x = 0 /\ call.offset_y = 0
    /\ 2 <= call.crop_width /\ call.crop_width < src.width
    /\ 2 <= call.crop_height /\ call.crop_height < src.height
    /\ result.image.pix[<<1, 1>>] = src.pix[<<1, 1>>]

\* resize "exact" returned a w x h image and sampled only source pixels
ExactDone ==
    /\ result.status = "ok"
    /\ result.image.width = call.w
    /\ result.image.height = call.h
    /\ DOMAIN result.image.pix = Coords(call.w, call.h)
    /\ \A q \in result.locals.samples : in_bounds(src, q[1], q[2])

\* C6 as stated: resize "exact" never fails and returns exactly w x h for
\* every source size (width, height >= 0) and every target w, h >= 0.
C6_ExactAlwaysSucceeds ==
    IsExact => ExactDone

\* C6 amended: resize "exact" returns exactly w x h, reading only source
\* pixels, when the source has width and height >= 1 or the target has
\* w = 0 or h = 0; for a source without pixels and w, h >= 1 it fails with
\* the pixel-access error.
C6_ExactSucceedsOnPixels ==
    IsExact =>
        IF NonEmpty(src) \/ call.w = 0 \/ call.h = 0
        THEN ExactDone
        ELSE Failed(ErrPixel)

C6_Witness ==
    /\ IsExact /\ ExactDone
    /\ src.width = 3 /\ src.height = 1
    /\ call.w = 2 /\ call.h = 3
    /\ <<1, 0>> \in result.locals.samples

\* C7: for a source and a target with positive sizes, resize_fit resamples
\* to (rw, rh) with rw <= w and rh <= h: (w, round(w / ratio)) unless that
\* height exceeds h, else (round(h * ratio), h).
C7_FitWithinBox ==
    (IsFit /\ NonEmpty(src) /\ call.w >= 1 /\ call.h >= 1) =>
        LET rw == result.locals.resize_width
            rh == result.locals.resize_height
            first == RoundDiv(call.w * src.height, src.width)
        IN  /\ rw <= call.w
            /\ rh <= call.h
            /\ IF first > call.h
               THEN rh = call.h /\ rw = RoundDiv(call.h * src.width, src.height)
               ELSE rw = call.w /\ rh = first

C7_Witness ==
    /\ IsFit /\ NonEmpty(src) /\ call.w >= 1 /\ call.h >= 1
    /\ RoundDiv(call.w * src.height, src.width) > call.h
    /\ result.locals.resize_height = call.h
    /\ result.locals.resize_width < call.w
    /\ result.status = "ok"

\* C8: for a source and a target with positive sizes, resize_fill scales to
\* (optimum_width, optimum_height) with optimum_width >= w and
\* optimum_height >= h: (w, round(w / ratio)), or (trunc(h * ratio), h) when
\* that height is below h; the crop then returns exactly w x h.
C8_FillCoversBox ==
    (IsFill /\ NonEmpty(src) /\ call.w >= 1 /\ call.h >= 1) =>
        LET ow == result.locals.resize_width
            oh == result.locals.resize_height
            first == RoundDiv(call.w * src.height, src.width)
        IN  /\ ow >= call.w
            /\ oh >= call.h
            /\ IF first < call.h
               THEN oh = call.h /\ ow = FloorDiv(call.h * src.width, src.height)
               ELSE ow = call.w /\ oh = first
            /\ result.status = "ok"
            /\ result.image.width = call.w
            /\ result.image.height = call.h
            /\ DOMAIN result.image.pix = Coords(call.w, call.h)

C8_Witness ==
    /\ IsFill /\ NonEmpty(src) /\ call.w >= 1 /\ call.h >= 1
    /\ RoundDiv(call.w * src.height, src.width) < call.h
    /\ result.locals.resize_width > call.w
    /\ result.status = "ok"
    /\ result.image.width = call.w

\* C9: every source read of crop's copy loop addresses a pixel of the
\* source, so crop never fails on a source read.
C9_CropReadsInside ==
    (IsCrop /\ result.locals.resolved) =>
        /\ \A q \in result.locals.reads : in_bounds(src, q[1], q[2])
        /\ ~Failed(ErrPixel)

C9_Witness ==
    /\ IsCrop /\ result.locals.resolved
    /\ call.position = "bottom-right" /\ call.offset_x > 0 /\ call.offset_y < 0
    /\ call.crop_width > src.width
    /\ result.locals.reads # {}
    /\ result.status = "ok"

UnknownAnchor == call.position \notin Positions
UnknownMode   == to_lowercase(call.blend_mode) \notin BlendModes
Outside ==
    /\ result.locals.resolved
    /\ outside_canvas(result.locals.offset_x, result.locals.offset_y,
                      src.width, src.height, call.image2.width, call.image2.height)

\* C10: blend returns the first failure that applies, in the order anchor
\* resolution, overlay outside the canvas, unknown blend mode; a failed call
\* returns no image.
C10_FirstFailureWins ==
    IsBlend =>
        /\ UnknownAnchor => Failed(ErrPosition)
        /\ (~UnknownAnchor /\ Outside) => Failed(ErrOutside)
        /\ (~UnknownAnchor /\ ~Outside /\ UnknownMode) => Failed(ErrBlend)
        /\ (~UnknownAnchor /\ ~Outside /\ ~UnknownMode) => result.status = "ok"
        /\ result.status = "err" => result.image = NoImage

C10_Witness ==
    /\ IsBlend
    /\ ~UnknownAnchor /\ Outside /\ UnknownMode
    /\ Failed(ErrOutside)
    /\ result.image = NoImage

====
